---- MODULE Spec2Model ----
(***************************************************************************)
(* Model of the retry executor Do (retry.go) and its policy configuration. *)
(*                                                                         *)
(* An error value is modelled by its cause chain, outermost layer first:   *)
(*   <<>>               the nil error                                      *)
(*   <<"e1">>           a plain error value e1                             *)
(*   <<"M", "e1">>      UnrecoverableError(e1)                             *)
(*   <<"M">>            UnrecoverableError(nil)                            *)
(*   <<"W", "M", "e1">> an error whose Unwrap() yields the marker          *)
(* "M" is an unrecoverableError layer, "W" a wrapping layer with Unwrap(). *)
(***************************************************************************)
EXTENDS Integers, Sequences, FiniteSets, TLC

\* ---- bounds of the model ----
MaxAttempts == 3
MaxDelay == 1
DurBits == 8

\* ---- program constants ----
defaultAttempts == 10
\* time.Duration(1<<63 - 1), at the modelled duration width
MaxDuration == 2^(DurBits - 1) - 1

Nil == <<>>
Canceled == <<"canceled">>
DeadlineExceeded == <<"deadline">>

\* results the retried operation may return: nil or one of these errors
OpErrors ==
  { <<"e1">>, <<"e2">>, <<"M", "e1">>, <<"M", "M", "e1">>,
    <<"W", "M", "e1">>, <<"M">> }

OpResults == {Nil} \cup OpErrors

\* ---- error classification ----

\* unrecoverableError{err: e}
UnrecoverableError(e) == <<"M">> \o e

\* errors.As(err, &unrecoverableError{}): walks Unwrap() until a marker layer
RECURSIVE IsReconverableError(_)
IsReconverableError(e) ==
  IF e = Nil THEN FALSE
  ELSE IF Head(e) = "M" THEN TRUE
  ELSE IF Head(e) = "W" THEN IsReconverableError(Tail(e))
  ELSE FALSE

\* the type assertion err.(unrecoverableError) panics unless err itself is
\* the marker
UnwrapPanics(e) == IsReconverableError(e) /\ Head(e) # "M"

UnwrapUnrecoverableError(e) ==
  IF IsReconverableError(e) THEN Tail(e) ELSE e

\* ---- configuration ----

newDefaultConfig ==
  [ attempts      |-> defaultAttempts,
    retryIfFn     |-> "default",
    delayFn       |-> "default",
    randomTime    |-> 0,
    maxDelayTime  |-> MaxDuration,
    maxBackOffN   |-> 0,
    delayTime     |-> 0,
    lastErrorOnly |-> FALSE,
    ctx           |-> "background" ]

WithAttempts(c, a) == [c EXCEPT !.attempts = a]
WithRetryIfFn(c, r) == [c EXCEPT !.retryIfFn = r]
WithLastErrorOnly(c, b) == [c EXCEPT !.lastErrorOnly = b]
WithContext(c, x) == [c EXCEPT !.ctx = x]
SetFixTimeFn(c, t) == [c EXCEPT !.delayTime = t]
SetMaxDelayTimeFn(c, m) == [c EXCEPT !.maxDelayTime = m]

\* WithDelayFn(df, opts...): the sub-options have been applied to c by the
\* caller of this operator; the policy df is installed behind the ceiling
WithDelayFn(c, df) == [c EXCEPT !.delayFn = df]

FixDelayFn(n, e, c) == c.delayTime

defaultDelayFn(n, e, c) == 0

\* variant: the closure returns the policy's result as it is
ClampedDelayNone(d, c) == d

\* the closure installed by WithDelayFn
ClampedDelay(d, c) == IF d > c.maxDelayTime THEN c.maxDelayTime ELSE d

\* cfg.delayFn(n, err, cfg)
DelayOf(n, e, c) ==
  IF c.delayFn = "default" THEN defaultDelayFn(n, e, c)
  ELSE ClampedDelay(FixDelayFn(n, e, c), c)

\* variant: the default predicate approves every error
defaultRetryIfFnAlways(n, e) == TRUE

defaultRetryIfFn(n, e) == ~IsReconverableError(e)

\* the answers cfg.retryIfFn(n, err) may give: a caller supplied predicate
\* is an arbitrary function of (n, err)
RetryIfResults(c, n, e) ==
  IF c.retryIfFn = "default" THEN {defaultRetryIfFn(n, e)} ELSE BOOLEAN

CtxKinds == {"background", "cancel", "timeout"}

\* ctx.Err() once the context has completed
CtxErrOf(x) == IF x = "timeout" THEN DeadlineExceeded ELSE Canceled

\* the configurations Do is run with: defaults, then the options
Configs ==
  { WithContext(
      WithLastErrorOnly(
        WithRetryIfFn(WithAttempts(newDefaultConfig, a), r), l), x) :
      a \in 0..MaxAttempts, r \in {"default", "custom"},
      l \in BOOLEAN, x \in CtxKinds }
  \cup
  { WithDelayFn(SetMaxDelayTimeFn(SetFixTimeFn(
      WithContext(
        WithLastErrorOnly(
          WithRetryIfFn(WithAttempts(newDefaultConfig, a), r), l), x),
      t), m), "fix") :
      a \in 1..MaxAttempts, r \in {"default", "custom"},
      l \in BOOLEAN, x \in CtxKinds, t \in 0..MaxDelay,
      m \in {0, MaxDuration} }

\* ---- state of one call of Do ----
VARIABLES
  cfg,          \* the configuration after the options
  ctxErr,       \* cfg.ctx.Err(): Nil while the context is live
  pc,           \* position of Do
  n,            \* attempt index
  lastErrIndex,
  errs,         \* the error store (1-based here, slot i of Go is errs[i+1])
  err,          \* the raw error of the current attempt
  timer,        \* time left until the channel of time.After is ready
  selected,     \* the case a blocked select was woken with
  result,       \* what Do returned
  trace         \* history of the calls Do made

vars == <<cfg, ctxErr, pc, n, lastErrIndex, errs, err, timer, selected,
          result, trace>>

Ev(name, i, e, b) == [ev |-> name, n |-> i, err |-> e, ok |-> b]

NoResult  == [kind |-> "none",  err |-> Nil, errs |-> <<>>]
NilResult == [kind |-> "nil",   err |-> Nil, errs |-> <<>>]
\* an error interface holding e: nil when e is the nil error
ErrResult(e) ==
  IF e = Nil THEN NilResult ELSE [kind |-> "err", err |-> e, errs |-> <<>>]
\* an error interface holding the Error slice s
ErrsResult(s) == [kind |-> "errs", err |-> Nil, errs |-> s]

\* variant: the budget is tested before the context
EntryCheckBudgetFirst(c, cerr) ==
  IF c.attempts = 0 THEN NilResult
  ELSE IF cerr # Nil THEN ErrResult(cerr)
  ELSE NoResult

\* lines 88-95: the checks before the loop; NoResult means "go on"
EntryCheck(c, cerr) ==
  IF cerr # Nil THEN ErrResult(cerr)
  ELSE IF c.attempts = 0 THEN NilResult
  ELSE NoResult

\* lines 97-102
MakeErrs(c) ==
  IF c.lastErrorOnly THEN <<Nil>> ELSE [i \in 1..c.attempts |-> Nil]

\* variant: the index is never advanced in collect-all mode
StoreIndexFixed(c, i, idx) == idx

\* lines 111-113
StoreIndex(c, i, idx) == IF ~c.lastErrorOnly THEN i ELSE idx

\* lines 104: the loop condition
LoopCond(c, i) == i < c.attempts

\* variant: the index is not incremented
NextIndexStuck(i) == i

\* line 104: n++
NextIndex(i) == i + 1

\* variant: the last permitted attempt is compared off by one
IsLastAttemptOffByOne(c, i) == i = c.attempts

\* line 121
IsLastAttempt(c, i) == i = c.attempts - 1

\* variant: the store is returned whatever the mode
ReturnErrsAggregate(c, s, idx) == ErrsResult(s)

\* lines 130-133 and 137-140
ReturnErrs(c, s, idx) ==
  IF c.lastErrorOnly THEN ErrResult(s[idx + 1]) ELSE ErrsResult(s)

Init ==
  /\ cfg \in Configs
  /\ ctxErr \in (IF cfg.ctx = "background" THEN {Nil}
                 ELSE {Nil, CtxErrOf(cfg.ctx)})
  /\ pc = "entry"
  /\ n = 0
  /\ lastErrIndex = 0
  /\ errs = <<>>
  /\ err = Nil
  /\ timer = 0
  /\ selected = "none"
  /\ result = NoResult
  /\ trace = <<>>

\* lines 88-104: entry checks, allocation of the store, first loop test
Enter ==
  /\ pc = "entry"
  /\ LET r == EntryCheck(cfg, ctxErr) IN
       IF r # NoResult
       THEN /\ result' = r
            /\ pc' = "done"
            /\ UNCHANGED errs
       ELSE /\ errs' = MakeErrs(cfg)
            /\ IF LoopCond(cfg, n)
               THEN pc' = "call" /\ UNCHANGED result
               ELSE pc' = "done" /\
                    result' = ReturnErrs(cfg, MakeErrs(cfg), lastErrIndex)
  /\ trace' = Append(trace, Ev("enter", n, ctxErr, ctxErr # Nil))
  /\ UNCHANGED <<cfg, ctxErr, n, lastErrIndex, err, timer, selected>>

\* variant: a successful attempt leaves the loop by break
AttemptBreakOnSuccess ==
  /\ pc = "call"
  /\ \E e \in OpResults :
       /\ trace' = Append(trace, Ev("f", n, e, e = Nil))
       /\ IF e = Nil
          THEN /\ result' = ReturnErrs(cfg, errs, lastErrIndex)
               /\ pc' = "done"
               /\ UNCHANGED <<lastErrIndex, errs, err>>
          ELSE /\ lastErrIndex' = StoreIndex(cfg, n, lastErrIndex)
               /\ err' = e
               /\ IF UnwrapPanics(e)
                  THEN pc' = "panic" /\ UNCHANGED errs
                  ELSE /\ errs' = [errs EXCEPT
                                     ![StoreIndex(cfg, n, lastErrIndex) + 1] =
                                        UnwrapUnrecoverableError(e)]
                       /\ pc' = "retryIf"
               /\ UNCHANGED result
  /\ UNCHANGED <<cfg, ctxErr, n, timer, selected>>

\* lines 105-114: one invocation of the operation and the store of its error
Attempt ==
  /\ pc = "call"
  /\ \E e \in OpResults :
       /\ trace' = Append(trace, Ev("f", n, e, e = Nil))
       /\ IF e = Nil
          THEN /\ result' = NilResult
               /\ pc' = "done"
               /\ UNCHANGED <<lastErrIndex, errs, err>>
          ELSE /\ lastErrIndex' = StoreIndex(cfg, n, lastErrIndex)
               /\ err' = e
               /\ IF UnwrapPanics(e)
                  THEN pc' = "panic" /\ UNCHANGED errs
                  ELSE /\ errs' = [errs EXCEPT
                                     ![StoreIndex(cfg, n, lastErrIndex) + 1] =
                                        UnwrapUnrecoverableError(e)]
                       /\ pc' = "retryIf"
               /\ UNCHANGED result
  /\ UNCHANGED <<cfg, ctxErr, n, timer, selected>>

\* variant: the test of the predicate's answer is inverted
RetryIfInverted ==
  /\ pc = "retryIf"
  /\ \E b \in RetryIfResults(cfg, n, err) :
       /\ trace' = Append(trace, Ev("retryIf", n, err, b))
       /\ IF ~b
          THEN pc' = "onRetry" /\ UNCHANGED result
          ELSE pc' = "done" /\ result' = ReturnErrs(cfg, errs, lastErrIndex)
  /\ UNCHANGED <<cfg, ctxErr, n, lastErrIndex, errs, err, timer, selected>>

\* lines 115-117: the retry predicate; break and return when it refuses
RetryIf ==
  /\ pc = "retryIf"
  /\ \E b \in RetryIfResults(cfg, n, err) :
       /\ trace' = Append(trace, Ev("retryIf", n, err, b))
       /\ IF b
          THEN pc' = "onRetry" /\ UNCHANGED result
          ELSE pc' = "done" /\ result' = ReturnErrs(cfg, errs, lastErrIndex)
  /\ UNCHANGED <<cfg, ctxErr, n, lastErrIndex, errs, err, timer, selected>>

\* variant: the break on the last permitted attempt comes before the callback
OnRetryAfterLastCheck ==
  /\ pc = "onRetry"
  /\ IF IsLastAttempt(cfg, n)
     THEN /\ pc' = "done"
          /\ result' = ReturnErrs(cfg, errs, lastErrIndex)
          /\ UNCHANGED trace
     ELSE /\ trace' = Append(trace, Ev("onRetry", n, err, TRUE))
          /\ pc' = "delay"
          /\ UNCHANGED result
  /\ UNCHANGED <<cfg, ctxErr, n, lastErrIndex, errs, err, timer, selected>>

\* lines 119-123: the callback, then the break on the last permitted attempt
OnRetry ==
  /\ pc = "onRetry"
  /\ trace' = Append(trace, Ev("onRetry", n, err, TRUE))
  /\ IF IsLastAttempt(cfg, n)
     THEN pc' = "done" /\ result' = ReturnErrs(cfg, errs, lastErrIndex)
     ELSE pc' = "delay" /\ UNCHANGED result
  /\ UNCHANGED <<cfg, ctxErr, n, lastErrIndex, errs, err, timer, selected>>

\* line 126: cfg.delayFn is computed and time.After starts the timer
Delay ==
  /\ pc = "delay"
  /\ timer' = DelayOf(n, err, cfg)
  /\ trace' = Append(trace, Ev("delay", n, err, TRUE))
  /\ pc' = "select"
  /\ UNCHANGED <<cfg, ctxErr, n, lastErrIndex, errs, err, selected, result>>

\* lines 126-127 and 104: the timer case; n++ and the loop test
TimerCase(tr) ==
  /\ trace' = Append(tr, Ev("timer", n, Nil, TRUE))
  /\ n' = NextIndex(n)
  /\ IF LoopCond(cfg, NextIndex(n))
     THEN pc' = "call" /\ UNCHANGED result
     ELSE pc' = "done" /\ result' = ReturnErrs(cfg, errs, lastErrIndex)
  /\ UNCHANGED errs

\* variant: the context's error is not stored before the return
DoneCaseNoStore(tr) ==
  /\ trace' = Append(tr, Ev("ctxdone", n, ctxErr, TRUE))
  /\ result' = ReturnErrs(cfg, errs, lastErrIndex)
  /\ pc' = "done"
  /\ UNCHANGED <<n, errs>>

\* lines 128-133: the ctx.Done() case
DoneCase(tr) ==
  /\ trace' = Append(tr, Ev("ctxdone", n, ctxErr, TRUE))
  /\ errs' = [errs EXCEPT
                ![lastErrIndex + 1] = UnwrapUnrecoverableError(ctxErr)]
  /\ result' = ReturnErrs(cfg,
                  [errs EXCEPT
                     ![lastErrIndex + 1] = UnwrapUnrecoverableError(ctxErr)],
                  lastErrIndex)
  /\ pc' = "done"
  /\ UNCHANGED n

\* line 125: select polls its cases; among the ready ones it takes any,
\* with none ready it blocks
Select ==
  /\ pc = "select"
  /\ LET tr == Append(trace, Ev("select", n, Nil, ctxErr # Nil)) IN
       IF timer = 0 \/ ctxErr # Nil
       THEN \/ timer = 0 /\ TimerCase(tr)
            \/ ctxErr # Nil /\ DoneCase(tr)
       ELSE pc' = "blocked" /\ trace' = tr /\ UNCHANGED <<n, errs, result>>
  /\ UNCHANGED <<cfg, ctxErr, lastErrIndex, err, timer, selected>>

\* time passes while the timer runs; a blocked select is woken by the
\* timer's channel
Tick ==
  /\ pc \in {"select", "blocked"}
  /\ timer > 0
  /\ timer' = timer - 1
  /\ IF pc = "blocked" /\ timer = 1
     THEN pc' = "woken" /\ selected' = "timer"
     ELSE UNCHANGED <<pc, selected>>
  /\ UNCHANGED <<cfg, ctxErr, n, lastErrIndex, errs, err, result, trace>>

\* the context completes (cancel, or its deadline); a blocked select is
\* woken by ctx.Done()
CtxDone ==
  /\ cfg.ctx # "background"
  /\ ctxErr = Nil
  /\ pc \notin {"done", "panic", "woken"}
  /\ ctxErr' = CtxErrOf(cfg.ctx)
  /\ IF pc = "blocked"
     THEN pc' = "woken" /\ selected' = "ctx"
     ELSE UNCHANGED <<pc, selected>>
  /\ UNCHANGED <<cfg, n, lastErrIndex, errs, err, timer, result, trace>>

\* the woken select runs the case it was woken with
Resume ==
  /\ pc = "woken"
  /\ IF selected = "timer" THEN TimerCase(trace) ELSE DoneCase(trace)
  /\ selected' = "none"
  /\ UNCHANGED <<cfg, ctxErr, lastErrIndex, err, timer>>

Next ==
  \/ Enter
  \/ Attempt
  \/ RetryIf
  \/ OnRetry
  \/ Delay
  \/ Select
  \/ Tick
  \/ CtxDone
  \/ Resume

Spec == Init /\ [][Next]_vars

\* ---- properties ----

Calls(name) == {i \in 1..Len(trace) : trace[i].ev = name}
fCalls == Cardinality(Calls("f"))
\* the last invocation of the operation so far
LastF == trace[CHOOSE i \in Calls("f") : \A j \in Calls("f") : j <= i]
\* a value made by UnrecoverableError, and the error that was passed to it
Marked(e) == e # Nil /\ Head(e) = "M"
Cause(e) == IF Marked(e) THEN Tail(e) ELSE e
PlainErrors == {<<"e1">>, <<"e2">>}
\* the run was ended by the context: at entry or by the ctx.Done() case
EndedByCtx ==
  \E i \in 1..Len(trace) :
    (trace[i].ev = "enter" /\ trace[i].ok) \/ trace[i].ev = "ctxdone"
\* the context completed while the select was blocked
CtxWhileBlocked(i) ==
  /\ i > 1
  /\ trace[i].ev = "ctxdone"
  /\ trace[i - 1].ev = "select"
  /\ ~trace[i - 1].ok

\* C1: with budget N >= 1, the default predicate, collect-all mode and a
\* context that never completes, an operation failing on every call with
\* the same plain error e is invoked exactly N times and Do returns the
\* aggregate of length N whose every slot is e.
C1_AllAttemptsCollected ==
  \A e \in PlainErrors :
    ( /\ pc = "done"
      /\ ctxErr = Nil
      /\ cfg.attempts >= 1
      /\ cfg.retryIfFn = "default"
      /\ ~cfg.lastErrorOnly
      /\ \A i \in Calls("f") : trace[i].err = e )
    => /\ fCalls = cfg.attempts
       /\ result = ErrsResult([i \in 1..cfg.attempts |-> e])

C1_Witness ==
  /\ pc = "done"
  /\ ctxErr = Nil
  /\ cfg.attempts >= 2
  /\ cfg.retryIfFn = "default"
  /\ ~cfg.lastErrorOnly
  /\ fCalls = cfg.attempts
  /\ \A i \in Calls("f") : trace[i].err = <<"e1">>

\* C2: when the retry predicate returns false at attempt index k, Do has
\* invoked the operation exactly k+1 times, k is below the budget, Do has
\* returned, and nothing (no callback, no delay, no further attempt) was
\* called after the predicate.
C2_StopWhenPredicateRefuses ==
  \A i \in 1..Len(trace) :
    (trace[i].ev = "retryIf" /\ ~trace[i].ok)
    => /\ i = Len(trace)
       /\ pc = "done"
       /\ trace[i].n < cfg.attempts
       /\ fCalls = trace[i].n + 1
       /\ \A j \in Calls("f") : trace[j].n = Cardinality({k \in Calls("f") : k < j})

C2_Witness ==
  /\ pc = "done"
  /\ cfg.retryIfFn = "custom"
  /\ \E i \in 1..Len(trace) :
       trace[i].ev = "retryIf" /\ ~trace[i].ok /\ trace[i].n >= 1

\* C3 (as stated): with the default predicate, in either mode, after the
\* operation returns UnrecoverableError(c) there is no further invocation
\* and the error Do returns equals c.
C3_ReturnsCauseInEitherMode ==
  \A i \in Calls("f") :
    (cfg.retryIfFn = "default" /\ Marked(trace[i].err))
    => /\ \A j \in Calls("f") : j <= i
       /\ pc \in {"retryIf", "done"}
       /\ pc = "done" => result = ErrResult(Tail(trace[i].err))

\* C3 (amended): with the default predicate, after the operation returns
\* UnrecoverableError(c) at attempt n there is no further invocation; in
\* last-only mode Do returns c, in collect-all mode Do returns the
\* aggregate whose slot n holds c.
C3_UnrecoverableStops ==
  \A i \in Calls("f") :
    (cfg.retryIfFn = "default" /\ Marked(trace[i].err))
    => /\ \A j \in Calls("f") : j <= i
       /\ pc \in {"retryIf", "done"}
       /\ pc = "done" =>
            IF cfg.lastErrorOnly
            THEN result = ErrResult(Tail(trace[i].err))
            ELSE /\ result.kind = "errs"
                 /\ Len(result.errs) = cfg.attempts
                 /\ result.errs[trace[i].n + 1] = Tail(trace[i].err)

C3_Witness ==
  /\ pc = "done"
  /\ cfg.retryIfFn = "default"
  /\ ~cfg.lastErrorOnly
  /\ \E i \in Calls("f") : Marked(trace[i].err) /\ trace[i].n >= 1

\* C4: when the context has already completed at entry, whatever the budget
\* and the other options, Do returns the context's error at once: the
\* operation, the predicate, the callback and the delay function are never
\* called.
C4_CancelledAtEntry ==
  (Len(trace) >= 1 /\ trace[1].ok)
  => /\ pc = "done"
     /\ Len(trace) = 1
     /\ result = [kind |-> "err", err |-> CtxErrOf(cfg.ctx), errs |-> <<>>]

C4_Witness ==
  /\ pc = "done"
  /\ Len(trace) = 1
  /\ trace[1].ok
  /\ cfg.attempts = 0

\* C5 (as stated): when the context completes while Do waits between two
\* attempts, Do returns the context's error in either mode and has made
\* fewer invocations than the budget.
C5_ReturnsCtxErrInEitherMode ==
  \A i \in 1..Len(trace) :
    CtxWhileBlocked(i)
    => /\ pc = "done"
       /\ result = ErrResult(CtxErrOf(cfg.ctx))
       /\ fCalls < cfg.attempts

\* C5 (amended): when the context completes while Do waits after attempt n,
\* Do returns at once having made fewer invocations than the budget; in
\* last-only mode it returns the context's error, in collect-all mode the
\* aggregate whose slot n holds the context's error.
C5_CancelledWhileWaiting ==
  \A i \in 1..Len(trace) :
    CtxWhileBlocked(i)
    => /\ pc = "done"
       /\ i = Len(trace)
       /\ fCalls = trace[i].n + 1
       /\ fCalls < cfg.attempts
       /\ IF cfg.lastErrorOnly
          THEN result = ErrResult(CtxErrOf(cfg.ctx))
          ELSE /\ result.kind = "errs"
               /\ Len(result.errs) = cfg.attempts
               /\ result.errs[trace[i].n + 1] = CtxErrOf(cfg.ctx)

C5_Witness ==
  /\ pc = "done"
  /\ \E i \in 1..Len(trace) : CtxWhileBlocked(i) /\ trace[i].n >= 1

\* C6: if the context has already completed when Do reaches the select
\* after attempt n, the operation is not invoked again.
C6_CancellationTakesPrecedence ==
  \A i \in 1..Len(trace) :
    (trace[i].ev = "select" /\ trace[i].ok)
    => \A j \in Calls("f") : j < i

\* C7: when attempt k returns no error, Do has invoked the operation
\* exactly k+1 times and returned nil, and nothing was called after the
\* successful attempt.
C7_SuccessEndsRun ==
  \A i \in Calls("f") :
    trace[i].ok
    => /\ i = Len(trace)
       /\ pc = "done"
       /\ result = NilResult
       /\ trace[i].n < cfg.attempts
       /\ fCalls = trace[i].n + 1

C7_Witness ==
  /\ pc = "done"
  /\ ~cfg.lastErrorOnly
  /\ \E i \in Calls("f") : trace[i].ok /\ trace[i].n >= 1

C9_LastOnlyReturnsLastCause ==
  (pc = "done" /\ cfg.lastErrorOnly /\ result.kind # "nil")
  => /\ result.kind = "err"
     /\ Calls("f") # {}
     /\ result.err = Cause(LastF.err)

\* C9 (amended): in last-only mode a non-nil result of Do is a single
\* error: the context's error when the context ended the run (at entry or
\* in the wait), otherwise the unwrapped cause of the most recent attempt.
C9_LastOnlyReturnsLastCauseOrCtx ==
  (pc = "done" /\ cfg.lastErrorOnly /\ result.kind # "nil")
  => /\ result.kind = "err"
     /\ IF EndedByCtx
        THEN result.err = CtxErrOf(cfg.ctx)
        ELSE Calls("f") # {} /\ result.err = Cause(LastF.err)

C9_Witness ==
  /\ pc = "done"
  /\ cfg.lastErrorOnly
  /\ result.kind = "err"
  /\ ~EndedByCtx
  /\ fCalls >= 2
  /\ Marked(LastF.err)

\* C10: whenever Do returns nil, some invocation of the operation returned
\* success.
C10_NilOnlyAfterSuccess ==
  (pc = "done" /\ result.kind = "nil")
  => \E i \in Calls("f") : trace[i].ok

\* an error that carries an unrecoverableError layer anywhere in its chain
HasMarker(e) == \E k \in 1..Len(e) : e[k] = "M"

\* C11: in collect-all mode the aggregate Do returns has as many slots as
\* attempts were made in the run; in last-only mode the error store has
\* exactly one slot.
C11_LengthIsAttemptsMade ==
  /\ (pc = "done" /\ result.kind = "errs") => Len(result.errs) = fCalls
  /\ (cfg.lastErrorOnly /\ Len(errs) # 0) => Len(errs) = 1

\* C12: UnwrapUnrecoverableError returns (it does not panic), and no error
\* in the store or returned by Do carries the marker.
C12_MarkerNeverLeaks ==
  /\ pc # "panic"
  /\ \A i \in 1..Len(errs) : ~HasMarker(errs[i])
  /\ ~HasMarker(result.err)
  /\ \A i \in 1..Len(result.errs) : ~HasMarker(result.errs[i])

\* C13: every failed attempt n that the predicate approves is followed at
\* once by exactly one callback call with (n, the raw error of attempt n),
\* before any delay and also on the last permitted attempt; the callback is
\* called for nothing else, its indices are 0, 1, 2, ... in order, and a
\* run of an always-failing, always-approved operation with budget N that
\* the context does not end makes N callback calls, the last with N-1.
C13_CallbackOncePerApprovedFailure ==
  /\ \A i \in 1..Len(trace) :
       (trace[i].ev = "retryIf" /\ trace[i].ok)
       => IF i = Len(trace) THEN pc = "onRetry"
          ELSE trace[i + 1] = Ev("onRetry", trace[i].n, trace[i].err, TRUE)
  /\ \A j \in Calls("onRetry") :
       /\ j > 2
       /\ trace[j - 1] = Ev("retryIf", trace[j].n, trace[j].err, TRUE)
       /\ trace[j - 2] = Ev("f", trace[j].n, trace[j].err, FALSE)
       /\ trace[j].n = Cardinality({k \in Calls("onRetry") : k < j})
       /\ IF j = Len(trace) THEN pc \in {"delay", "done"}
          ELSE trace[j + 1].ev = "delay" /\ trace[j + 1].n = trace[j].n
  /\ ( /\ pc = "done"
       /\ ~EndedByCtx
       /\ cfg.attempts >= 1
       /\ \A i \in Calls("f") : ~trace[i].ok
       /\ \A i \in Calls("retryIf") : trace[i].ok )
     => /\ Cardinality(Calls("onRetry")) = cfg.attempts
        /\ trace[Len(trace)] = Ev("onRetry", cfg.attempts - 1, err, TRUE)

C13_Witness ==
  /\ pc = "done"
  /\ ~EndedByCtx
  /\ cfg.attempts >= 2
  /\ Cardinality(Calls("onRetry")) = cfg.attempts
  /\ \E j \in Calls("onRetry") : Marked(trace[j].err)

\* C16: a run that ends without cancellation after m >= 1 invocations has
\* computed the delay exactly m-1 times; each delay call for index n comes
\* right after the callback for n, is awaited by the select, happens once,
\* and precedes the invocation of attempt n+1, which has one before it.
C16_DelayBetweenAttempts ==
  /\ (pc = "done" /\ ~EndedByCtx /\ fCalls >= 1)
     => Cardinality(Calls("delay")) = fCalls - 1
  /\ \A j \in Calls("delay") :
       /\ j > 1
       /\ trace[j - 1] = Ev("onRetry", trace[j].n, trace[j].err, TRUE)
       /\ IF j = Len(trace) THEN pc = "select"
          ELSE trace[j + 1].ev = "select" /\ trace[j + 1].n = trace[j].n
       /\ \A k \in Calls("delay") : trace[k].n = trace[j].n => k = j
       /\ \A i \in Calls("f") : (i > j) = (trace[i].n > trace[j].n)
  /\ \A i \in Calls("f") :
       trace[i].n >= 1
       => \E j \in Calls("delay") : j < i /\ trace[j].n = trace[i].n - 1

C16_Witness ==
  /\ pc = "done"
  /\ ~EndedByCtx
  /\ fCalls = cfg.attempts
  /\ Cardinality(Calls("delay")) = 2
  /\ cfg.delayFn = "fix"
  /\ cfg.delayTime >= 1

\* C19: in collect-all mode, slot i of the aggregate Do returns holds the
\* unwrapped error of attempt i, for every attempt i that was invoked.
C19_EveryAttemptKept ==
  (pc = "done" /\ result.kind = "errs")
  => \A i \in Calls("f") :
       ~trace[i].ok => result.errs[trace[i].n + 1] = Cause(trace[i].err)

\* Do's own steps are taken when they can be, and time passes while a timer
\* runs; the context need never complete
Fairness ==
  /\ WF_vars(Enter)
  /\ WF_vars(Attempt)
  /\ WF_vars(RetryIf)
  /\ WF_vars(OnRetry)
  /\ WF_vars(Delay)
  /\ WF_vars(Select)
  /\ WF_vars(Tick)
  /\ WF_vars(Resume)

SpecLive == Spec /\ Fairness

\* C20: for every budget, with every call of the operation, the predicate
\* and the callback returning and every delay finite, Do eventually
\* returns, whether or not the context completes.
C20_DoEventuallyReturns == <>(pc = "done")

\* control eventually leaves Do, by a return or by the panic of the unwrap
DoEventuallyLeaves == <>(pc \in {"done", "panic"})

\* the attempt index only grows, by one per loop iteration
IndexOnlyGrows == [][n' = n \/ (n' = n + 1 /\ pc' \in {"call", "done"})]_vars

\* ---- the aggregate error's containment check ----
\* In this specification errs is the aggregate (an Error value), err the
\* target, and result the answer of Error.Is.

MaxAggLen == 2

\* errors.New("error") twice (two values, one message) and os.ErrClosed
BaseMessage(b) == IF b = "e3" THEN "file already closed" ELSE "error"

\* err.Error(): the marker delegates to the error it holds
RECURSIVE ErrorMessage(_)
ErrorMessage(e) ==
  IF e = Nil THEN <<>>
  ELSE IF Head(e) = "M" THEN ErrorMessage(Tail(e))
  ELSE IF Head(e) = "W" THEN <<"w">> \o ErrorMessage(Tail(e))
  ELSE <<BaseMessage(Head(e))>>

\* the errors an aggregate may hold, nil slots included
StoredErrors ==
  { Nil, <<"e1">>, <<"e2">>, <<"e3">>, <<"M", "e1">>, <<"W", "e1">>,
    <<"W", "M", "e1">>, <<"W", "W", "e2">> }

Targets == { <<"e1">>, <<"e2">>, <<"e3">>, <<"M", "e1">>, <<"W", "e1">> }

RECURSIVE SeqsUpTo(_, _)
SeqsUpTo(S, k) ==
  IF k = 0 THEN {<<>>}
  ELSE LET shorter == SeqsUpTo(S, k - 1) IN
         shorter \cup {Append(s, x) : s \in shorter, x \in S}

\* errors.Is(e, t): compares, then follows Unwrap(); the marker and the
\* plain errors have no Unwrap()
RECURSIVE errorsIsWalk(_, _)
errorsIsWalk(e, t) ==
  \/ e = t
  \/ /\ Head(e) = "W"
     /\ Tail(e) # Nil
     /\ errorsIsWalk(Tail(e), t)

errorsIs(e, t) ==
  IF e = Nil \/ t = Nil THEN e = t ELSE errorsIsWalk(e, t)

\* variant: the loop returns the answer for the first element
ErrorIsFirstOnly(s, t) == Len(s) > 0 /\ errorsIs(s[1], t)

\* func (e Error) Is(target error) bool
ErrorIs(s, t) == \E i \in 1..Len(s) : errorsIs(s[i], t)

InitIs ==
  /\ errs \in SeqsUpTo(StoredErrors, MaxAggLen)
  /\ err \in Targets
  /\ pc = "is"
  /\ result = FALSE
  /\ cfg = newDefaultConfig
  /\ ctxErr = Nil
  /\ n = 0
  /\ lastErrIndex = 0
  /\ timer = 0
  /\ selected = "none"
  /\ trace = <<>>

IsCall ==
  /\ pc = "is"
  /\ result' = ErrorIs(errs, err)
  /\ pc' = "isDone"
  /\ UNCHANGED <<cfg, ctxErr, n, lastErrIndex, errs, err, timer, selected,
                 trace>>

NextIs == IsCall

SpecIs == InitIs /\ [][NextIs]_vars

\* t is e or is met by unwrapping e layer by layer
Reachable(e, t) ==
  \E k \in 0..(Len(e) - 1) :
    /\ \A j \in 1..k : e[j] = "W"
    /\ SubSeq(e, k + 1, Len(e)) = t

\* C15: Error.Is answers true exactly when the target is reachable in the
\* cause chain of at least one stored error; a value with the message of a
\* stored error but not reachable from any is not contained.
C15_IsIffReachable ==
  pc = "isDone"
  => /\ result = (\E i \in 1..Len(errs) : Reachable(errs[i], err))
     /\ ( /\ \E i \in 1..Len(errs) : ErrorMessage(errs[i]) = ErrorMessage(err)
          /\ \A i \in 1..Len(errs) : ~Reachable(errs[i], err) )
        => result = FALSE

C15_Witness ==
  /\ pc = "isDone"
  /\ result = TRUE
  /\ errs = << <<"e2">>, <<"W", "e1">> >>
  /\ err = <<"e1">>
  /\ ErrorMessage(errs[1]) = ErrorMessage(err)

\* ---- the delay policies behind WithDelayFn ----
\* In this specification cfg is the configuration after
\* WithDelayFn(df, opts...), cfg.delayFn the policy df as the list of the
\* functions it sums (one function: the policy itself, several:
\* CombineDelayFn of them), selected the list opts, n the next attempt
\* index, timer the duration handed to time.After and trace the history of
\* the calls of cfg.delayFn.

MaxIndex == 3

\* significant bits of a float64 (53), at the modelled duration width
MantBits == DurBits - 3

\* max := uint(62), at the modelled duration width
MaxShift == DurBits - 2

\* an int64 sum or shift keeps the low bits (two's complement)
ToDur(x) ==
  LET m == x % (2^DurBits) IN
    IF m >= 2^(DurBits - 1) THEN m - 2^DurBits ELSE m

\* a uint subtraction wraps around
ToUint(x) == x % (2^DurBits)

RECURSIVE FloorLog2(_)
FloorLog2(x) == IF x < 2 THEN 0 ELSE 1 + FloorLog2(x \div 2)

\* float64(x) for x > 0: the nearest value with MantBits significant bits,
\* ties to the even one
ToFloat(x) ==
  LET L == FloorLog2(x) IN
    IF L < MantBits THEN x
    ELSE LET ulp == 2^(L - MantBits + 1)
             q == x \div ulp
             r == x % ulp
         IN IF 2 * r > ulp \/ (2 * r = ulp /\ q % 2 = 1)
              THEN (q + 1) * ulp
              ELSE q * ulp

\* uint(NaN) depends on the platform: 0 or the top bit
NaNToUint == {0, 2^(DurBits - 1)}

\* x << k: a shift by the width or more yields 0
Shl(x, k) == IF k >= DurBits THEN 0 ELSE ToDur(x * 2^k)

SetRamdomTimeFn(c, r) == [c EXCEPT !.randomTime = r]
SetBackOffBeginTimeFn(c, b) == [c EXCEPT !.delayTime = b]

\* rand.Int63n(int64(c.randomTime)): the values it may return; it panics
\* when the argument is not positive (no value)
RandomDelayFn(i, e, c) == 0..(c.randomTime - 1)

\* uint(math.Floor(math.Log2(float64(c.delayTime)))): the logarithm is taken
\* of the converted value; of a negative one it is NaN
BackOffLog(c) ==
  IF c.delayTime < 0 THEN NaNToUint
  ELSE {FloorLog2(ToFloat(c.delayTime))}

\* BackOffDelayFn: the outcomes [d, c] of one call, d the duration returned
\* and c the configuration it leaves
BackOffDelayFn(i, e, c) ==
  LET c1 == IF c.delayTime = 0 THEN [c EXCEPT !.delayTime = 1] ELSE c
      cs == IF c1.maxBackOffN = 0
              THEN {[c1 EXCEPT !.maxBackOffN = ToUint(MaxShift - l)] :
                      l \in BackOffLog(c1)}
              ELSE {c1}
  IN { [ d |-> Shl(c2.delayTime,
                   IF i > c2.maxBackOffN THEN c2.maxBackOffN ELSE i),
         c |-> c2, panic |-> FALSE ] : c2 \in cs }

\* one delay function of the policy called on c
LeafOutcomes(kind, i, e, c) ==
  IF kind = "fix"
    THEN {[d |-> FixDelayFn(i, e, c), c |-> c, panic |-> FALSE]}
  ELSE IF kind = "random"
    THEN IF RandomDelayFn(i, e, c) = {}
           THEN {[d |-> 0, c |-> c, panic |-> TRUE]}
           ELSE {[d |-> r, c |-> c, panic |-> FALSE] :
                   r \in RandomDelayFn(i, e, c)}
  ELSE BackOffDelayFn(i, e, c)

\* CombineDelayFn(delayFns...): duration += df(n, e, c), in order, on the
\* one configuration
RECURSIVE CombineDelayFn(_, _, _, _)
CombineDelayFn(p, i, e, c) ==
  IF p = <<>> THEN {[d |-> 0, c |-> c, panic |-> FALSE]}
  ELSE UNION
    { IF o.panic THEN {o}
      ELSE { [d |-> ToDur(o.d + l.d), c |-> l.c, panic |-> l.panic] :
               l \in LeafOutcomes(p[Len(p)], i, e, o.c) } :
      o \in CombineDelayFn(SubSeq(p, 1, Len(p) - 1), i, e, c) }

\* one sub-option applied to c
ApplyDelayOption(c, o) ==
  IF o.opt = "max" THEN SetMaxDelayTimeFn(c, o.v)
  ELSE IF o.opt = "fix" THEN SetFixTimeFn(c, o.v)
  ELSE IF o.opt = "backoff" THEN SetBackOffBeginTimeFn(c, o.v)
  ELSE SetRamdomTimeFn(c, o.v)

\* for _, opt := range opts { opt(c) }
RECURSIVE ApplyDelayOptions(_, _)
ApplyDelayOptions(c, opts) ==
  IF opts = <<>> THEN c
  ELSE ApplyDelayOptions(ApplyDelayOption(c, Head(opts)), Tail(opts))

DelayKinds == {"fix", "random", "backoff"}

\* a single delay function or a combinator of two
Policies ==
  {<<k>> : k \in DelayKinds} \cup {<<k, l>> : k \in DelayKinds, l \in DelayKinds}

OptionValues(opt) ==
  IF opt = "max" THEN {0, 2, MaxDuration}
  ELSE IF opt = "random" THEN {0, 3}
  ELSE {0, 3, MaxDuration}

DelayOptions ==
  { [opt |-> o, v |-> v] :
      o \in {"max", "fix", "backoff", "random"}, v \in 0..MaxDuration }

\* sub-option lists: up to three sub-options of distinct kinds in every
\* order, and the backoff policy's base delay alone with every value
DelayOptionLists ==
  LET S == { o \in DelayOptions : o.v \in OptionValues(o.opt) } IN
    {<<>>}
    \cup {<<a>> : a \in S}
    \cup { s \in { <<a, b>> : a \in S, b \in S } : s[1].opt # s[2].opt }
    \cup { s \in { <<a, b, d>> : a \in S, b \in S, d \in S } :
             /\ s[1].opt # s[2].opt
             /\ s[1].opt # s[3].opt
             /\ s[2].opt # s[3].opt }

BackOffBases ==
  { <<[opt |-> "backoff", v |-> b]>> : b \in 0..MaxDuration }

InitDelay ==
  /\ \E p \in Policies :
       \E opts \in DelayOptionLists \cup BackOffBases :
         /\ cfg = WithDelayFn(ApplyDelayOptions(newDefaultConfig, opts), p)
         /\ selected = opts
  /\ pc = "delayFn"
  /\ n = 0
  /\ timer = 0
  /\ trace = <<>>
  /\ err = <<"e1">>
  /\ errs = <<>>
  /\ ctxErr = Nil
  /\ lastErrIndex = 0
  /\ result = FALSE

\* time.After(cfg.delayFn(n, err, cfg)) for the next attempt index
DelayCall ==
  /\ pc = "delayFn"
  /\ n <= MaxIndex
  /\ \E o \in CombineDelayFn(cfg.delayFn, n, err, cfg) :
       IF o.panic
         THEN /\ pc' = "panic"
              /\ UNCHANGED <<cfg, n, timer, trace>>
         ELSE /\ cfg' = o.c
              /\ timer' = ClampedDelay(o.d, o.c)
              /\ n' = n + 1
              /\ trace' = Append(trace,
                            [ n |-> n, raw |-> o.d,
                              waited |-> ClampedDelay(o.d, o.c),
                              maxBackOffN |-> o.c.maxBackOffN ])
              /\ pc' = "delayFn"
  /\ UNCHANGED <<ctxErr, lastErrIndex, errs, err, selected, result>>

NextDelay == DelayCall

SpecDelay == InitDelay /\ [][NextDelay]_vars

\* the value a sub-option list leaves for one setting
RECURSIVE Configured(_, _, _)
Configured(opts, kinds, default) ==
  IF opts = <<>> THEN default
  ELSE IF opts[Len(opts)].opt \in kinds THEN opts[Len(opts)].v
  ELSE Configured(SubSeq(opts, 1, Len(opts) - 1), kinds, default)

ConfiguredMax == Configured(selected, {"max"}, MaxDuration)

\* C17: the duration handed to time.After never exceeds the configured
\* maximum delay and equals the policy's result when that is not above it,
\* for every policy, attempt index and order of the sub-options.
C17_DelayClamped ==
  pc \in {"delayFn", "panic"}
  => /\ \A i \in 1..Len(trace) :
          /\ trace[i].waited <= ConfiguredMax
          /\ trace[i].raw <= ConfiguredMax => trace[i].waited = trace[i].raw
     /\ trace # <<>> => timer = trace[Len(trace)].waited

C17_Witness ==
  /\ pc = "delayFn"
  /\ Len(trace) = 2
  /\ cfg.delayFn = <<"backoff", "fix">>
  /\ Len(selected) = 2
  /\ selected[1].opt = "max"
  /\ trace[1].raw <= ConfiguredMax
  /\ trace[1].waited = trace[1].raw
  /\ trace[2].raw > ConfiguredMax
  /\ trace[2].waited = ConfiguredMax

\* the base delay of the backoff policy, an unset one counting as 1
BackOffBase ==
  LET b == Configured(selected, {"fix", "backoff"}, 0) IN
    IF b = 0 THEN 1 ELSE b

\* C18: the backoff policy returns b * 2^min(n, maxExponent) with the
\* maxExponent derived at the first call and reused; the result is
\* positive, fits the duration type and is non-decreasing in n.
C18_BackOffDoubles ==
  (pc = "delayFn" /\ cfg.delayFn = <<"backoff">>)
  => \A i \in 1..Len(trace) :
       LET k == IF trace[i].n < trace[i].maxBackOffN
                  THEN trace[i].n ELSE trace[i].maxBackOffN
       IN /\ trace[i].raw = BackOffBase * 2^k
          /\ trace[i].raw > 0
          /\ trace[i].raw <= MaxDuration
          /\ i > 1 => /\ trace[i - 1].raw <= trace[i].raw
                      /\ trace[i - 1].maxBackOffN = trace[i].maxBackOffN

\* ---- two calls of Do running concurrently ----
\* In this specification every local variable of Do is a function of the
\* call; cfg and errs are heaps ([heap, of]: the objects by address, and
\* the address each call's local variable holds, 0 for none); selected is
\* the Option values each call is given; trace[c] is the history of the
\* invocations call c made.  The contexts are context.Background() and the
\* predicate is the default one.

MaxConcAttempts == 2

DoCalls == {1, 2}

\* the Option values of a call: WithAttempts, WithLastErrorOnly and, for
\* "backoff", WithDelayFn(BackOffDelayFn)
ConcOptions ==
  [ attempts : 0..MaxConcAttempts, lastErrorOnly : BOOLEAN,
    delayFn : {"default", "backoff"} ]

\* for _, opt := range opts { opt(cfg) }
ApplyOptions(c, o) ==
  LET c1 == WithLastErrorOnly(WithAttempts(c, o.attempts), o.lastErrorOnly)
  IN IF o.delayFn = "default" THEN c1 ELSE WithDelayFn(c1, o.delayFn)

ConcResults == {Nil, <<"e1">>, <<"e2">>, <<"M", "e1">>, <<"W", "M", "e1">>}

\* variant: every call is handed the one configuration object
NewConfigAddrShared(c) == 1

\* &config{...}: a new object for every call
NewConfigAddr(c) == c

\* make(Error, ...): a new store for every call
MakeErrsAddr(c) == c

\* cfg.delayFn(n, err, cfg): the outcomes [d, c]
ConcDelayFn(c, i, e) ==
  IF c.delayFn = "default"
    THEN {[d |-> defaultDelayFn(i, e, c), c |-> c, panic |-> FALSE]}
    ELSE { [d |-> ClampedDelay(o.d, o.c), c |-> o.c, panic |-> FALSE] :
             o \in BackOffDelayFn(i, e, c) }

\* an unrecovered panic ends the process, and with it every call
Alive == \A c \in DoCalls : pc[c] # "panic"

CfgOf(c) == cfg.heap[cfg.of[c]]
ErrsOf(c) == errs.heap[errs.of[c]]

InitConc ==
  /\ selected \in [DoCalls -> ConcOptions]
  /\ cfg = [ heap |-> [a \in DoCalls |-> newDefaultConfig],
             of |-> [c \in DoCalls |-> 0] ]
  /\ errs = [ heap |-> [a \in DoCalls |-> <<>>], of |-> [c \in DoCalls |-> 0] ]
  /\ pc = [c \in DoCalls |-> "start"]
  /\ n = [c \in DoCalls |-> 0]
  /\ lastErrIndex = [c \in DoCalls |-> 0]
  /\ err = [c \in DoCalls |-> Nil]
  /\ timer = [c \in DoCalls |-> 0]
  /\ result = [c \in DoCalls |-> NoResult]
  /\ trace = [c \in DoCalls |-> <<>>]
  /\ ctxErr = Nil

\* lines 82-86: the configuration is made and the options applied
CNew(c) ==
  /\ Alive
  /\ pc[c] = "start"
  /\ cfg' = [ heap |-> [cfg.heap EXCEPT ![NewConfigAddr(c)] =
                          ApplyOptions(newDefaultConfig, selected[c])],
              of |-> [cfg.of EXCEPT ![c] = NewConfigAddr(c)] ]
  /\ pc' = [pc EXCEPT ![c] = "entry"]
  /\ UNCHANGED <<ctxErr, n, lastErrIndex, errs, err, timer, selected, result,
                 trace>>

\* lines 88-104: entry checks, allocation of the store, first loop test
CEnter(c) ==
  /\ Alive
  /\ pc[c] = "entry"
  /\ LET r == EntryCheck(CfgOf(c), ctxErr)
         s == MakeErrs(CfgOf(c))
     IN IF r # NoResult
        THEN /\ result' = [result EXCEPT ![c] = r]
             /\ pc' = [pc EXCEPT ![c] = "done"]
             /\ UNCHANGED errs
        ELSE /\ errs' = [ heap |-> [errs.heap EXCEPT ![MakeErrsAddr(c)] = s],
                          of |-> [errs.of EXCEPT ![c] = MakeErrsAddr(c)] ]
             /\ IF LoopCond(CfgOf(c), n[c])
                THEN pc' = [pc EXCEPT ![c] = "call"] /\ UNCHANGED result
                ELSE /\ pc' = [pc EXCEPT ![c] = "done"]
                     /\ result' = [result EXCEPT ![c] =
                                     ReturnErrs(CfgOf(c), s, lastErrIndex[c])]
  /\ UNCHANGED <<cfg, ctxErr, n, lastErrIndex, err, timer, selected, trace>>

\* lines 105-114: one invocation of the operation and the store of its error
CAttempt(c) ==
  /\ Alive
  /\ pc[c] = "call"
  /\ \E e \in ConcResults :
       /\ trace' = [trace EXCEPT ![c] = Append(@, Ev("f", n[c], e, e = Nil))]
       /\ IF e = Nil
          THEN /\ result' = [result EXCEPT ![c] = NilResult]
               /\ pc' = [pc EXCEPT ![c] = "done"]
               /\ UNCHANGED <<lastErrIndex, errs, err>>
          ELSE LET idx == StoreIndex(CfgOf(c), n[c], lastErrIndex[c]) IN
               /\ lastErrIndex' = [lastErrIndex EXCEPT ![c] = idx]
               /\ err' = [err EXCEPT ![c] = e]
               /\ IF UnwrapPanics(e)
                  THEN pc' = [pc EXCEPT ![c] = "panic"] /\ UNCHANGED errs
                  ELSE /\ errs' = [errs EXCEPT
                                     !.heap[errs.of[c]][idx + 1] =
                                        UnwrapUnrecoverableError(e)]
                       /\ pc' = [pc EXCEPT ![c] = "retryIf"]
               /\ UNCHANGED result
  /\ UNCHANGED <<cfg, ctxErr, n, timer, selected>>

\* lines 115-123: the predicate, the callback and the break on the last
\* permitted attempt
CRetryIf(c) ==
  /\ Alive
  /\ pc[c] = "retryIf"
  /\ IF ~defaultRetryIfFn(n[c], err[c]) \/ IsLastAttempt(CfgOf(c), n[c])
     THEN /\ pc' = [pc EXCEPT ![c] = "done"]
          /\ result' = [result EXCEPT ![c] =
                          ReturnErrs(CfgOf(c), ErrsOf(c), lastErrIndex[c])]
     ELSE pc' = [pc EXCEPT ![c] = "delay"] /\ UNCHANGED result
  /\ UNCHANGED <<cfg, ctxErr, n, lastErrIndex, errs, err, timer, selected,
                 trace>>

\* line 126: cfg.delayFn is called on the call's configuration
CDelay(c) ==
  /\ Alive
  /\ pc[c] = "delay"
  /\ \E o \in ConcDelayFn(CfgOf(c), n[c], err[c]) :
       /\ cfg' = [cfg EXCEPT !.heap[cfg.of[c]] = o.c]
       /\ timer' = [timer EXCEPT ![c] = o.d]
  /\ pc' = [pc EXCEPT ![c] = "wait"]
  /\ UNCHANGED <<ctxErr, n, lastErrIndex, errs, err, selected, result, trace>>

\* lines 126-127 and 104: the timer's case, n++ and the loop test
CTimer(c) ==
  /\ Alive
  /\ pc[c] = "wait"
  /\ n' = [n EXCEPT ![c] = NextIndex(n[c])]
  /\ IF LoopCond(CfgOf(c), NextIndex(n[c]))
     THEN pc' = [pc EXCEPT ![c] = "call"] /\ UNCHANGED result
     ELSE /\ pc' = [pc EXCEPT ![c] = "done"]
          /\ result' = [result EXCEPT ![c] =
                          ReturnErrs(CfgOf(c), ErrsOf(c), lastErrIndex[c])]
  /\ UNCHANGED <<cfg, ctxErr, lastErrIndex, errs, err, timer, selected,
                 trace>>

NextConc ==
  \E c \in DoCalls :
    \/ CNew(c)
    \/ CEnter(c)
    \/ CAttempt(c)
    \/ CRetryIf(c)
    \/ CDelay(c)
    \/ CTimer(c)

SpecConc == InitConc /\ [][NextConc]_vars

\* Do run alone on configuration c with the operation returning fs[1],
\* fs[2], ...: the invocations made and the outcome, kind "none" while the
\* run needs a further result and "panic" when it panics
RECURSIVE SoloLoop(_, _, _, _, _)
SoloLoop(c, fs, i, idx, s) ==
  IF ~LoopCond(c, i) THEN [count |-> i, result |-> ReturnErrs(c, s, idx)]
  ELSE IF i + 1 > Len(fs) THEN [count |-> i, result |-> NoResult]
  ELSE LET e == fs[i + 1]
           idx2 == StoreIndex(c, i, idx)
           s2 == [s EXCEPT ![idx2 + 1] = UnwrapUnrecoverableError(e)]
       IN IF e = Nil THEN [count |-> i + 1, result |-> NilResult]
          ELSE IF UnwrapPanics(e)
            THEN [count |-> i + 1,
                  result |-> [kind |-> "panic", err |-> Nil, errs |-> <<>>]]
          ELSE IF ~defaultRetryIfFn(i, e) \/ IsLastAttempt(c, i)
            THEN [count |-> i + 1, result |-> ReturnErrs(c, s2, idx2)]
          ELSE SoloLoop(c, fs, NextIndex(i), idx2, s2)

SoloRun(o, fs) ==
  LET c == ApplyOptions(newDefaultConfig, o) IN
    IF EntryCheck(c, Nil) # NoResult
      THEN [count |-> 0, result |-> EntryCheck(c, Nil)]
      ELSE SoloLoop(c, fs, 0, 0, MakeErrs(c))

\* the results of the invocations call c made so far
ResultsOf(c) == [i \in 1..Len(trace[c]) |-> trace[c][i].err]

\* C14: two concurrent calls of Do, whatever their Option values (the same
\* ones included) and whatever the interleaving, work each on its own
\* configuration and error store, and the invocation count and the result
\* of each call are those of the call run alone.
C14_CallsIndependent ==
  /\ \A c \in DoCalls : \A d \in DoCalls \ {c} :
       /\ (cfg.of[c] # 0 /\ cfg.of[d] # 0) => cfg.of[c] # cfg.of[d]
       /\ (errs.of[c] # 0 /\ errs.of[d] # 0) => errs.of[c] # errs.of[d]
  /\ \A c \in DoCalls :
       LET solo == SoloRun(selected[c], ResultsOf(c)) IN
         /\ pc[c] = "done"
            => /\ solo.count = Len(trace[c])
               /\ solo.result = result[c]
         /\ pc[c] = "panic"
            => /\ solo.count = Len(trace[c])
               /\ solo.result.kind = "panic"
         /\ pc[c] \in {"call", "delay", "wait"}
            => /\ solo.count = Len(trace[c])
               /\ solo.result = NoResult
         /\ pc[c] = "retryIf" => solo.count = Len(trace[c])
         /\ pc[c] \notin {"start", "done", "panic"}
            => /\ CfgOf(c).attempts = selected[c].attempts
               /\ CfgOf(c).lastErrorOnly = selected[c].lastErrorOnly

C14_Witness ==
  /\ pc[1] = "done"
  /\ pc[2] = "done"
  /\ selected[1] = selected[2]
  /\ selected[1].delayFn = "backoff"
  /\ selected[1].attempts = 2
  /\ CfgOf(1).maxBackOffN # 0
  /\ CfgOf(2).maxBackOffN # 0
  /\ Len(trace[1]) = 2
  /\ Len(trace[2]) = 2
  /\ result[1].kind = "errs"
  /\ result[2].kind = "errs"
  /\ result[1] # result[2]

====
